---- MODULE Spec2Model ----
(***************************************************************************)
(* Seam-carving resize: a model of Carver (src/src/carve.rs).              *)
(*                                                                         *)
(* Coordinates are 0-based as in the source; TLA+ sequences are 1-based,   *)
(* so the cell at (x, y) is rows[y + 1][x + 1].                            *)
(*                                                                         *)
(* Option<T> is a sequence of length 0 (None) or 1 (Some).  A panic of the *)
(* program (expect on None, usize underflow, an index out of range) is the *)
(* control position "panic", which no action leaves.                       *)
(***************************************************************************)
EXTENDS Integers, Sequences, FiniteSets, TLC

VARIABLES
    carver,       \* the Carver: [grid, removed_points]
    shrinker,     \* the clone of get_points_removed_by_shrink, while it lives
    pc,           \* where the program is
    call,         \* resize's arguments and its initial_width, initial_height
    phase,        \* "width" or "height": which if-chain of resize is running
    distance,     \* the argument of the running grow_distance / shrink_distance
    remaining,    \* iterations the loop of shrink_distance still has to run
    path,         \* the seam find_path returned
    points,       \* grow_distance: the points still to insert
    image,        \* the image the last resize returned
    read_points,  \* what the last get_removed_points returned
    calls,        \* history: resize calls made
    valid,        \* history: every resize call so far had width >= 1 and height >= 1
    pre,          \* history: the carver when the last resize call began
    grow_base,    \* history: the grid when the running grow_distance began
    fatal         \* history: why the program panicked

vars == <<carver, shrinker, pc, call, phase, distance, remaining, path, points,
          image, read_points, calls, valid, pre, grow_base, fatal>>

(* ------------------------------ bounds -------------------------------- *)

\* Largest width and height of the image a Carver is constructed from.
MaxWidth == 3
MaxHeight == 2
\* Largest target width / height handed to resize.
MaxTarget == 4
\* Number of resize calls on one Carver.
MaxCalls == 2

\* Rgba<u8> values the constructed image is drawn from.
Palette == { <<10, 20, 30, 255>>, <<20, 30, 40, 255>> }

(* ------------------------------ the grid ------------------------------ *)

\* PixelEnergyPoint built from a pixel (image.into(), pixel.into()).
FromPixel(pixel) ==
    [pixel |-> pixel, energy |-> 0, path_cost |-> 0, original_position |-> <<0, 0>>]

\* The cell add_last_column appends to every row.
BlankCell == FromPixel(<<0, 0, 0, 0>>)

\* Grid<PixelEnergyPoint> built from an image given as rows of pixels.
GridFromImage(w, h, pix) ==
    [width |-> w, height |-> h,
     rows |-> [y \in 1..h |-> [x \in 1..w |-> FromPixel(pix[y][x])]]]

InBounds(g, x, y) == x >= 0 /\ x < g.width /\ y >= 0 /\ y < g.height

Get(g, x, y) == g.rows[y + 1][x + 1]

SetCell(g, x, y, cell) == [g EXCEPT !.rows[y + 1][x + 1] = cell]

\* Mutant of the edge policy, clamp: a neighbour outside the image is replaced by the opposite
\* neighbour of the same pair (by the cell itself when neither exists).
GetAdjacentClamp(g, x, y) ==
    LET has_l == x >= 1
        has_r == x + 1 < g.width
        has_u == y >= 1
        has_d == y + 1 < g.height
        lx == IF has_l THEN x - 1 ELSE IF has_r THEN x + 1 ELSE x
        rx == IF has_r THEN x + 1 ELSE IF has_l THEN x - 1 ELSE x
        uy == IF has_u THEN y - 1 ELSE IF has_d THEN y + 1 ELSE y
        dy == IF has_d THEN y + 1 ELSE IF has_u THEN y - 1 ELSE y
    IN  <<Get(g, lx, y), Get(g, rx, y), Get(g, x, uy), Get(g, x, dy)>>

\* The neighbour pairs (left, right, up, down) of (x, y): a neighbour outside the
\* image wraps around to the opposite edge.
GetAdjacent(g, x, y) ==
    LET left_x == IF x >= 1 THEN x - 1 ELSE g.width - 1
        right_x == (x + 1) % g.width
        up_y == IF y >= 1 THEN y - 1 ELSE g.height - 1
        down_y == (y + 1) % g.height
    IN  <<Get(g, left_x, y), Get(g, right_x, y), Get(g, x, up_y), Get(g, x, down_y)>>

\* Sum over the channels of the squared absolute difference.
RECURSIVE SumSquares(_, _, _)
SumSquares(p1, p2, i) ==
    IF i > Len(p1) THEN 0
    ELSE LET d == IF p1[i] >= p2[i] THEN p1[i] - p2[i] ELSE p2[i] - p1[i]
         IN  d * d + SumSquares(p1, p2, i + 1)

SquareGradient(cell1, cell2) == SumSquares(cell1.pixel, cell2.pixel, 1)

\* The cells of the row above at columns x-1, x, x+1 that exist, as coordinates,
\* leftmost first.
GetParentsIndexed(g, x, y) ==
    IF y = 0 THEN <<>>
    ELSE LET cand == <<x - 1, x, x + 1>>
             Exists(px) == px >= 0 /\ px < g.width
             kept == SelectSeq(cand, Exists)
         IN  [i \in 1..Len(kept) |-> <<kept[i], y - 1>>]

\* Rust's Iterator::min_by_key: the first of the minimal elements.
MinByKeyIndex(keys) ==
    CHOOSE i \in 1..Len(keys) :
        /\ \A j \in 1..Len(keys) : keys[i] <= keys[j]
        /\ \A j \in 1..(i - 1) : keys[j] > keys[i]

\* Within row y the cells at columns > x move one column left; the last column
\* keeps its cell until remove_last_column drops it.
ShiftRowLeftFromPoint(g, x, y) ==
    LET row == g.rows[y + 1]
        n == Len(row)
    IN  [g EXCEPT !.rows[y + 1] =
            [i \in 1..n |-> IF i - 1 >= x /\ i < n THEN row[i + 1] ELSE row[i]]]

\* Within row y the cells at columns > x move one column right, opening column
\* x + 1 for the caller to write; the cell of the last column falls off.
ShiftRowRightFromPoint(g, x, y) ==
    LET row == g.rows[y + 1]
        n == Len(row)
    IN  [g EXCEPT !.rows[y + 1] =
            [i \in 1..n |-> IF i - 1 > x + 1 THEN row[i - 1] ELSE row[i]]]

AddLastColumn(g) ==
    [g EXCEPT !.width = g.width + 1,
              !.rows = [y \in 1..g.height |-> Append(g.rows[y], BlankCell)]]

RemoveLastColumn(g) ==
    [g EXCEPT !.width = g.width - 1,
              !.rows = [y \in 1..g.height |-> SubSeq(g.rows[y], 1, Len(g.rows[y]) - 1)]]

\* Transposition: the cell at (x, y) goes to (y, x).
GridRotate(g) ==
    [width |-> g.height, height |-> g.width,
     rows |-> [y \in 1..g.width |-> [x \in 1..g.height |-> g.rows[x][y]]]]

(* ----------------------------- the carver ----------------------------- *)

\* Carver::new and #[derive(Clone)]: a carver is its grid and its recorded points.
NewCarver(g) == [grid |-> g, removed_points |-> <<>>]

CalculatePixelEnergy(g, x, y) ==
    LET adj == GetAdjacent(g, x, y)
        horizontal_square_gradient == SquareGradient(adj[1], adj[2])
        vertical_square_gradient == SquareGradient(adj[3], adj[4])
        energy == horizontal_square_gradient + vertical_square_gradient
    IN  SetCell(g, x, y, [Get(g, x, y) EXCEPT !.energy = energy])

\* Mutant of get_min_parent_path_cost: max() where the code has min().
GetMaxParentPathCost(g, x, y) ==
    LET parents == GetParentsIndexed(g, x, y)
        costs == [i \in 1..Len(parents) |-> Get(g, parents[i][1], parents[i][2]).path_cost]
    IN  IF Len(costs) = 0 THEN 0
        ELSE costs[CHOOSE i \in 1..Len(costs) : \A j \in 1..Len(costs) : costs[i] >= costs[j]]

\* The smallest path_cost among the parents; 0 when there is none.
GetMinParentPathCost(g, x, y) ==
    LET parents == GetParentsIndexed(g, x, y)
        costs == [i \in 1..Len(parents) |-> Get(g, parents[i][1], parents[i][2]).path_cost]
    IN  IF Len(costs) = 0 THEN 0 ELSE costs[MinByKeyIndex(costs)]

CalculatePathCost(g, x, y) ==
    LET min_parent_path_cost == GetMinParentPathCost(g, x, y)
        energy == Get(g, x, y).energy
    IN  SetCell(g, x, y, [Get(g, x, y) EXCEPT !.path_cost = min_parent_path_cost + energy])

\* The cell visited k-th by the loops of calculate_energy (rows outermost).
VisitX(g, k) == k % g.width
VisitY(g, k) == k \div g.width

RECURSIVE CalculateEnergyFrom(_, _)
CalculateEnergyFrom(g, k) ==
    IF k >= g.width * g.height THEN g
    ELSE LET x == VisitX(g, k)
             y == VisitY(g, k)
         IN  CalculateEnergyFrom(CalculatePathCost(CalculatePixelEnergy(g, x, y), x, y), k + 1)

CalculateEnergy(g) == CalculateEnergyFrom(g, 0)

\* get_path_start panics when height() - 1 underflows or the bottom row is empty.
PathStartPanics(g) == g.height = 0 \/ g.width = 0

\* Mutant of get_path_start: max_by_key where the code has min_by_key.
GetPathStartMax(g) ==
    LET y == g.height - 1
        row == g.rows[y + 1]
        costs == [i \in 1..Len(row) |-> row[i].path_cost]
    IN  <<(CHOOSE i \in 1..Len(costs) : \A j \in 1..Len(costs) : costs[i] >= costs[j]) - 1, y>>

GetPathStart(g) ==
    LET y == g.height - 1
        row == g.rows[y + 1]
        costs == [i \in 1..Len(row) |-> row[i].path_cost]
    IN  <<MinByKeyIndex(costs) - 1, y>>

\* Mutant of get_parent_with_min_path_cost: the cheapest cell of the whole row
\* above, where the code looks at the parents only.
GetParentWithMinPathCostWholeRow(g, x, y) ==
    IF y = 0 THEN <<>>
    ELSE LET row == g.rows[y]
             costs == [i \in 1..Len(row) |-> row[i].path_cost]
         IN  << <<MinByKeyIndex(costs) - 1, y - 1>> >>

GetParentWithMinPathCost(g, x, y) ==
    LET parents == GetParentsIndexed(g, x, y)
        costs == [i \in 1..Len(parents) |-> Get(g, parents[i][1], parents[i][2]).path_cost]
    IN  IF Len(parents) = 0 THEN <<>> ELSE <<parents[MinByKeyIndex(costs)]>>

RECURSIVE FindPathLoop(_, _)
FindPathLoop(g, seam) ==
    LET last == seam[Len(seam)]
        parent == GetParentWithMinPathCost(g, last[1], last[2])
    IN  IF parent = <<>> THEN seam ELSE FindPathLoop(g, Append(seam, parent[1]))

FindPath(g, start_x, start_y) == FindPathLoop(g, << <<start_x, start_y>> >>)

\* remove_path: per point, record the cell's original_position and close the gap
\* in its row; then drop the last column.
RECURSIVE RemovePoints(_, _, _)
RemovePoints(c, pts, i) ==
    IF i > Len(pts) THEN c
    ELSE LET x == pts[i][1]
             y == pts[i][2]
             original_position == Get(c.grid, x, y).original_position
         IN  RemovePoints([grid |-> ShiftRowLeftFromPoint(c.grid, x, y),
                           removed_points |-> Append(c.removed_points, original_position)],
                          pts, i + 1)

\* Mutant of remove_path: the call of remove_last_column is missing.
RemovePathKeepColumn(c, pts) == RemovePoints(c, pts, 1)

RemovePath(c, pts) ==
    LET shifted == RemovePoints(c, pts, 1)
    IN  [shifted EXCEPT !.grid = RemoveLastColumn(shifted.grid)]

ResetPositions(g) ==
    [g EXCEPT !.rows = [y \in 1..g.height |-> [x \in 1..g.width |->
        [g.rows[y][x] EXCEPT !.original_position = <<x - 1, y - 1>>]]]]

\* points.sort_by(|a, b| b.0.cmp(&a.0)): a stable sort by descending column.
RECURSIVE InsertByColumn(_, _)
InsertByColumn(sorted, p) ==
    IF sorted = <<>> THEN <<p>>
    ELSE LET last == sorted[Len(sorted)]
         IN  IF last[1] >= p[1] THEN Append(sorted, p)
             ELSE Append(InsertByColumn(SubSeq(sorted, 1, Len(sorted) - 1), p), last)

RECURSIVE SortPointsFrom(_, _, _)
SortPointsFrom(pts, i, acc) ==
    IF i > Len(pts) THEN acc
    ELSE SortPointsFrom(pts, i + 1, InsertByColumn(acc, pts[i]))

\* Mutant of the sort of get_points_removed_by_shrink: a.0.cmp(&b.0), ascending.
RECURSIVE InsertByColumnAscending(_, _)
InsertByColumnAscending(sorted, p) ==
    IF sorted = <<>> THEN <<p>>
    ELSE LET last == sorted[Len(sorted)]
         IN  IF last[1] <= p[1] THEN Append(sorted, p)
             ELSE Append(InsertByColumnAscending(SubSeq(sorted, 1, Len(sorted) - 1), p), last)

RECURSIVE SortAscendingFrom(_, _, _)
SortAscendingFrom(pts, i, acc) ==
    IF i > Len(pts) THEN acc
    ELSE SortAscendingFrom(pts, i + 1, InsertByColumnAscending(acc, pts[i]))

SortPointsAscending(pts) == SortAscendingFrom(pts, 1, <<>>)

SortPoints(pts) == SortPointsFrom(pts, 1, <<>>)

\* The clone of get_points_removed_by_shrink before it shrinks.
MakeShrinker(c) == [grid |-> ResetPositions(c.grid), removed_points |-> <<>>]

RECURSIVE AddColumns(_, _)
AddColumns(g, n) == IF n = 0 THEN g ELSE AddColumns(AddLastColumn(g), n - 1)

AveragePixels(pixel1, pixel2) ==
    [i \in 1..4 |-> (pixel1[i] + pixel2[i]) \div 2]

AveragePixelFromNeighbors(g, x, y, left) ==
    AveragePixels(left, Get(g, x + 1, y).pixel)

AddPoint(c, x, y, pixel) ==
    [grid |-> SetCell(ShiftRowRightFromPoint(c.grid, x, y), x + 1, y, FromPixel(pixel)),
     removed_points |-> Append(c.removed_points, Get(c.grid, x, y).original_position)]

\* One pass of the second loop of grow_distance.
GrowPointPanics(g, x, y) == ~InBounds(g, x, y) \/ ~InBounds(g, x + 1, y)

GrowPoint(c, x, y) ==
    LET left == Get(c.grid, x, y).pixel
        pixel == AveragePixelFromNeighbors(c.grid, x, y, left)
    IN  AddPoint(c, x, y, pixel)

RebuildImage(g) ==
    [width |-> g.width, height |-> g.height,
     pixels |-> [y \in 1..g.height |-> [x \in 1..g.width |-> g.rows[y][x].pixel]]]

(* ------------------------------ actions ------------------------------- *)

\* The state after Carver::new(image), for every image within the bounds.
Init ==
    /\ \E w \in 1..MaxWidth, h \in 1..MaxHeight :
         \E pix \in [1..h -> [1..w -> Palette]] :
            carver = NewCarver(GridFromImage(w, h, pix))
    /\ shrinker = <<>>
    /\ pc = "idle"
    /\ call = [width |-> 0, height |-> 0, initial_width |-> 0, initial_height |-> 0]
    /\ phase = "width"
    /\ distance = 0
    /\ remaining = 0
    /\ path = <<>>
    /\ points = <<>>
    /\ image = <<>>
    /\ read_points = <<>>
    /\ calls = 0
    /\ valid = TRUE
    /\ pre = carver
    /\ grow_base = <<>>
    /\ fatal = "none"

\* The carver shrink_distance runs on: the clone while it lives.
Self == IF shrinker # <<>> THEN shrinker[1] ELSE carver

\* resize: entry.
Resize(width, height) ==
    /\ pc = "idle"
    /\ calls < MaxCalls
    /\ call' = [width |-> width, height |-> height,
                initial_width |-> carver.grid.width,
                initial_height |-> carver.grid.height]
    /\ phase' = "width"
    /\ pc' = "width"
    /\ calls' = calls + 1
    /\ valid' = (valid /\ width >= 1 /\ height >= 1)
    /\ pre' = carver
    /\ UNCHANGED <<carver, shrinker, distance, remaining, path, points, image,
                   read_points, grow_base, fatal>>

\* resize: the if-chain on width.
WidthPhase ==
    /\ pc = "width"
    /\ IF call.width > call.initial_width
       THEN /\ distance' = call.width - call.initial_width
            /\ remaining' = 0
            /\ pc' = "clone"
       ELSE IF call.width < call.initial_width
       THEN /\ distance' = call.initial_width - call.width
            /\ remaining' = call.initial_width - call.width
            /\ pc' = "calc"
       ELSE /\ UNCHANGED <<distance, remaining>>
            /\ pc' = "height"
    /\ UNCHANGED <<carver, shrinker, call, phase, path, points, image, read_points,
                   calls, valid, pre, grow_base, fatal>>

\* resize: the if-chain on height, with the first rotate of its branch.
HeightPhase ==
    /\ pc = "height"
    /\ phase' = "height"
    /\ IF call.height > call.initial_height
       THEN /\ carver' = [carver EXCEPT !.grid = GridRotate(carver.grid)]
            /\ distance' = call.height - call.initial_height
            /\ remaining' = 0
            /\ pc' = "clone"
       ELSE IF call.height < call.initial_height
       THEN /\ carver' = [carver EXCEPT !.grid = GridRotate(carver.grid)]
            /\ distance' = call.initial_height - call.height
            /\ remaining' = call.initial_height - call.height
            /\ pc' = "calc"
       ELSE /\ UNCHANGED <<carver, distance, remaining>>
            /\ pc' = "rebuild"
    /\ UNCHANGED <<shrinker, call, path, points, image, read_points, calls, valid,
                   pre, grow_base, fatal>>

\* get_points_removed_by_shrink: clone, clear, reset_positions.
CloneShrinker ==
    /\ pc = "clone"
    /\ shrinker' = <<MakeShrinker(carver)>>
    /\ remaining' = distance
    /\ grow_base' = <<carver.grid>>
    /\ pc' = "calc"
    /\ UNCHANGED <<carver, call, phase, distance, path, points, image, read_points,
                   calls, valid, pre, fatal>>

\* shrink_distance: calculate_energy.
CalculateEnergyStep ==
    /\ pc = "calc"
    /\ IF shrinker # <<>>
       THEN /\ shrinker' = <<[shrinker[1] EXCEPT !.grid = CalculateEnergy(shrinker[1].grid)]>>
            /\ UNCHANGED carver
       ELSE /\ carver' = [carver EXCEPT !.grid = CalculateEnergy(carver.grid)]
            /\ UNCHANGED shrinker
    /\ pc' = "find"
    /\ UNCHANGED <<call, phase, distance, remaining, path, points, image, read_points,
                   calls, valid, pre, grow_base, fatal>>

\* shrink_distance: get_path_start and find_path.
FindPathStep ==
    /\ pc = "find"
    /\ IF PathStartPanics(Self.grid)
       THEN /\ pc' = "panic"
            /\ fatal' = IF Self.grid.height = 0 THEN "height_underflow"
                        ELSE "empty_bottom_row"
            /\ UNCHANGED path
       ELSE /\ LET start == GetPathStart(Self.grid)
               IN  path' = FindPath(Self.grid, start[1], start[2])
            /\ pc' = "remove"
            /\ UNCHANGED fatal
    /\ UNCHANGED <<carver, shrinker, call, phase, distance, remaining, points, image,
                   read_points, calls, valid, pre, grow_base>>

\* shrink_distance: remove_path, and the loop's next round or its end.
RemovePathStep ==
    /\ pc = "remove"
    /\ IF \E i \in 1..Len(path) : ~InBounds(Self.grid, path[i][1], path[i][2])
       THEN /\ pc' = "panic"
            /\ fatal' = "out_of_bounds"
            /\ UNCHANGED <<carver, shrinker, remaining, path>>
       ELSE /\ IF shrinker # <<>>
               THEN /\ shrinker' = <<RemovePath(shrinker[1], path)>>
                    /\ UNCHANGED carver
               ELSE /\ carver' = RemovePath(carver, path)
                    /\ UNCHANGED shrinker
            /\ remaining' = remaining - 1
            /\ path' = <<>>
            /\ pc' = IF remaining - 1 > 0 THEN "calc"
                     ELSE IF shrinker # <<>> THEN "widen" ELSE "end"
            /\ UNCHANGED fatal
    /\ UNCHANGED <<call, phase, distance, points, image, read_points, calls, valid,
                   pre, grow_base>>

\* grow_distance: the sorted points of the clone, and the first loop.
WidenStep ==
    /\ pc = "widen"
    /\ points' = SortPoints(shrinker[1].removed_points)
    /\ shrinker' = <<>>
    /\ carver' = [carver EXCEPT !.grid = AddColumns(carver.grid, distance)]
    /\ pc' = IF points' = <<>> THEN "end" ELSE "add"
    /\ UNCHANGED <<call, phase, distance, remaining, path, image, read_points, calls,
                   valid, pre, grow_base, fatal>>

\* grow_distance: one round of the second loop.
AddPointStep ==
    /\ pc = "add"
    /\ LET x == points[1][1]
           y == points[1][2]
       IN  IF GrowPointPanics(carver.grid, x, y)
           THEN /\ pc' = "panic"
                /\ fatal' = "out_of_bounds"
                /\ UNCHANGED <<carver, points>>
           ELSE /\ carver' = GrowPoint(carver, x, y)
                /\ points' = Tail(points)
                /\ pc' = IF Tail(points) = <<>> THEN "end" ELSE "add"
                /\ UNCHANGED fatal
    /\ UNCHANGED <<shrinker, call, phase, distance, remaining, path, image,
                   read_points, calls, valid, pre, grow_base>>

\* resize: a branch is done; the height branches end with their second rotate.
EndPhase ==
    /\ pc = "end"
    /\ IF phase = "width"
       THEN /\ pc' = "height"
            /\ UNCHANGED carver
       ELSE /\ carver' = [carver EXCEPT !.grid = GridRotate(carver.grid)]
            /\ pc' = "rebuild"
    /\ distance' = 0
    /\ grow_base' = <<>>
    /\ UNCHANGED <<shrinker, call, phase, remaining, path, points, image, read_points,
                   calls, valid, pre, fatal>>

\* resize: rebuild_image, and the return.
RebuildImageStep ==
    /\ pc = "rebuild"
    /\ image' = <<RebuildImage(carver.grid)>>
    /\ pc' = "idle"
    /\ UNCHANGED <<carver, shrinker, call, phase, distance, remaining, path, points,
                   read_points, calls, valid, pre, grow_base, fatal>>

GetRemovedPoints ==
    /\ pc = "idle"
    /\ read_points' = carver.removed_points
    /\ UNCHANGED <<carver, shrinker, pc, call, phase, distance, remaining, path,
                   points, image, calls, valid, pre, grow_base, fatal>>

Next ==
    \/ \E width \in 0..MaxTarget, height \in 0..MaxTarget : Resize(width, height)
    \/ WidthPhase
    \/ HeightPhase
    \/ CloneShrinker
    \/ CalculateEnergyStep
    \/ FindPathStep
    \/ RemovePathStep
    \/ WidenStep
    \/ AddPointStep
    \/ EndPhase
    \/ RebuildImageStep
    \/ GetRemovedPoints

Spec == Init /\ [][Next]_vars

(* ------------------------ the tests of carve.rs ----------------------- *)

\* The 3x4 image of the small tests (include_bytes! of small_energy.png, which
\* is not among the sources): the pixels under which calculate_energy yields the
\* four tables the small tests expect.
SmallImage ==
    << << <<255, 101, 51, 255>>, <<255, 101, 153, 255>>, <<255, 101, 255, 255>> >>,
       << <<255, 153, 51, 255>>, <<255, 153, 153, 255>>, <<255, 153, 255, 255>> >>,
       << <<255, 203, 51, 255>>, <<255, 204, 153, 255>>, <<255, 205, 255, 255>> >>,
       << <<255, 255, 51, 255>>, <<255, 255, 153, 255>>, <<255, 255, 255, 255>> >> >>

\* setup_carver!(SMALL): Carver::new, then calculate_energy.
SmallCarverGrid == CalculateEnergy(GridFromImage(3, 4, SmallImage))

\* get_small_pixel_energy()
SmallPixelEnergy ==
    << <<20808, 52020, 20808>>,
       <<20808, 52225, 21220>>,
       <<20809, 52024, 20809>>,
       <<20808, 52225, 21220>> >>

\* get_small_path_energy()
SmallPathEnergy ==
    << <<20808, 52020, 20808>>,
       <<41616, 73033, 42028>>,
       <<62425, 93640, 62837>>,
       <<83233, 114650, 84057>> >>

\* get_small_path()
SmallPath == << <<0, 3>>, <<0, 2>>, <<0, 1>>, <<0, 0>> >>

\* get_pixel_energy / get_path_energy: the grid's energies and path costs by row.
GetPixelEnergy(g) == [y \in 1..g.height |-> [x \in 1..g.width |-> g.rows[y][x].energy]]
GetPathEnergy(g) == [y \in 1..g.height |-> [x \in 1..g.width |-> g.rows[y][x].path_cost]]

\* carver_small_pixel_energy_test, carver_small_path_energy_test,
\* carver_small_get_path_start_test, carver_small_find_path_test
SmallTestsPass ==
    /\ GetPixelEnergy(SmallCarverGrid) = SmallPixelEnergy
    /\ GetPathEnergy(SmallCarverGrid) = SmallPathEnergy
    /\ GetPathStart(SmallCarverGrid) = <<0, 3>>
    /\ FindPath(SmallCarverGrid, 0, 3) = SmallPath

(* ------------------------------- claims ------------------------------- *)

\* the running or last resize call has a target of 0
CallInvalid == calls >= 1 /\ (call.width = 0 \/ call.height = 0)

\* a resize call has returned and the program waits for the next one
Returned == pc = "idle" /\ calls >= 1

\* C1: every resize with targets >= 1 completes and returns an image of exactly
\* the target width and height (growing by any d >= 0 included).
C1_ResizeReachesTarget ==
    valid =>
        /\ pc # "panic"
        /\ Returned => /\ image # <<>>
                       /\ image[1].width = call.width
                       /\ image[1].height = call.height

\* (what does hold) a valid resize that returns has returned the target dimensions
ReturnedImageHasTarget ==
    (valid /\ Returned) =>
        /\ image # <<>>
        /\ image[1].width = call.width /\ image[1].height = call.height
        /\ carver.grid.width = call.width /\ carver.grid.height = call.height

\* (what does hold) calls with targets >= 1 make no access outside the grid; the
\* only panic they reach is the seam-start search on an empty bottom row
NoOutOfBoundsWhenValid ==
    valid => fatal \in {"none", "empty_bottom_row"}

\* C2: a resize with a target width or height of 0 aborts before it mutates any
\* state: when it has returned, grid and recorded points are as they were when
\* the call began.
C2_ZeroTargetMutatesNothing ==
    (CallInvalid /\ Returned) => carver = pre

\* C3: no sequence of resize calls with targets >= 1 reaches a fatal condition
\* (an access outside the grid, a seam-start search on an empty bottom row), in
\* the real grid or in the grow simulation clone.
C3_NoFatalCondition ==
    valid => fatal = "none"

\* the points the running or last resize call recorded
PointsOfLastCall ==
    SubSeq(carver.removed_points, Len(pre.removed_points) + 1, Len(carver.removed_points))

\* C4: after resize calls with targets >= 1, get_removed_points returns exactly
\* the points of the most recent call, none recorded by an earlier call.
C4_OnlyLatestPoints ==
    (valid /\ Returned) => carver.removed_points = PointsOfLastCall

\* shrink_distance has computed the costs of its grid and not yet changed it
AfterCostPass == pc = "find" \/ pc = "remove"

\* shrink_distance holds the seam of its grid and has not yet removed it
SeamFound == pc = "remove"

Abs(n) == IF n >= 0 THEN n ELSE 0 - n

\* C5: the extracted seam has exactly height points, one per row from row
\* height-1 down to row 0, every point inside the grid, and points of adjacent
\* rows differ in column by at most 1.
C5_SeamWellFormed ==
    SeamFound =>
        LET g == Self.grid
        IN  /\ g.width >= 1 /\ g.height >= 1
            /\ Len(path) = g.height
            /\ \A i \in 1..Len(path) :
                 /\ path[i][2] = g.height - i
                 /\ path[i][1] >= 0 /\ path[i][1] < g.width
            /\ \A i \in 1..(Len(path) - 1) : Abs(path[i][1] - path[i + 1][1]) <= 1

\* a seam over at least two rows that changes column
C5_Witness ==
    /\ SeamFound
    /\ Self.grid.height >= 2
    /\ \E i \in 1..(Len(path) - 1) : path[i][1] # path[i + 1][1]

\* the squared channel differences of the pixels at (x1, y1) and (x2, y2)
PixelGradient(g, x1, y1, x2, y2) ==
    LET a == g.rows[y1 + 1][x1 + 1].pixel
        b == g.rows[y2 + 1][x2 + 1].pixel
    IN  (a[1] - b[1]) * (a[1] - b[1]) + (a[2] - b[2]) * (a[2] - b[2])
        + (a[3] - b[3]) * (a[3] - b[3]) + (a[4] - b[4]) * (a[4] - b[4])

\* C6 as claimed: energy is the horizontal plus the vertical square gradient, and
\* the gradient of an axis is 0 for a cell on that axis' border (clamp policy), so
\* that every corner cell has energy 0.
C6_ClampEnergy ==
    AfterCostPass =>
        LET g == Self.grid
        IN  \A x \in 0..(g.width - 1), y \in 0..(g.height - 1) :
                Get(g, x, y).energy =
                    (IF x = 0 \/ x = g.width - 1 THEN 0
                     ELSE PixelGradient(g, x - 1, y, x + 1, y))
                    + (IF y = 0 \/ y = g.height - 1 THEN 0
                       ELSE PixelGradient(g, x, y - 1, x, y + 1))

\* C6 as amended: energy is the horizontal plus the vertical square gradient of
\* the neighbour pairs taken modulo the width and the height (wrap-around), which
\* is what the energies the tests expect of the 3x4 image are.
C6_WrapEnergy ==
    /\ GetPixelEnergy(SmallCarverGrid) = SmallPixelEnergy
    /\ AfterCostPass =>
        LET g == Self.grid
            w == g.width
            h == g.height
        IN  \A x \in 0..(w - 1), y \in 0..(h - 1) :
                Get(g, x, y).energy =
                    PixelGradient(g, (x + w - 1) % w, y, (x + 1) % w, y)
                    + PixelGradient(g, x, (y + h - 1) % h, x, (y + 1) % h)

\* a corner cell whose energy is not 0
C6_Witness ==
    /\ AfterCostPass
    /\ Self.grid.width >= 3
    /\ Get(Self.grid, 0, 0).energy > 0

\* the path costs of the parents of (x, y) that exist
ParentCosts(g, x, y) ==
    { Get(g, px, y - 1).path_cost :
        px \in { c \in {x - 1, x, x + 1} : c >= 0 /\ c < g.width } }

SetMin(S) == CHOOSE m \in S : \A n \in S : m <= n

\* C7: after a cost pass every cell has path_cost = energy + the least path_cost
\* of its existing parents of the same pass, path_cost = energy in row 0, and so
\* path_cost >= energy; nothing of an earlier pass remains.
C7_PathCostRecurrence ==
    AfterCostPass =>
        LET g == Self.grid
        IN  \A x \in 0..(g.width - 1), y \in 0..(g.height - 1) :
                /\ Get(g, x, y).path_cost =
                       IF y = 0 THEN Get(g, x, y).energy
                       ELSE Get(g, x, y).energy + SetMin(ParentCosts(g, x, y))
                /\ Get(g, x, y).path_cost >= Get(g, x, y).energy

\* a pass over a grid that holds the costs of an earlier pass, in which a cell
\* below row 0 has parents of different cost
C7_Witness ==
    /\ AfterCostPass
    /\ remaining < distance
    /\ \E x \in 0..(Self.grid.width - 1), y \in 1..(Self.grid.height - 1) :
          /\ Cardinality(ParentCosts(Self.grid, x, y)) >= 2
          /\ Get(Self.grid, x, y).path_cost > Get(Self.grid, x, y).energy

\* the connected top-to-bottom paths of g: a column per row, adjacent rows at
\* most one column apart
ConnectedPaths(g) ==
    { p \in [1..g.height -> 0..(g.width - 1)] :
        \A y \in 1..(g.height - 1) : Abs(p[y] - p[y + 1]) <= 1 }

RECURSIVE PathEnergy(_, _, _)
PathEnergy(g, p, y) ==
    IF y > g.height THEN 0 ELSE g.rows[y][p[y] + 1].energy + PathEnergy(g, p, y + 1)

RECURSIVE SeamEnergy(_, _, _)
SeamEnergy(g, seam, i) ==
    IF i > Len(seam) THEN 0
    ELSE Get(g, seam[i][1], seam[i][2]).energy + SeamEnergy(g, seam, i + 1)

\* C8: the energies of the seam's cells sum to the path_cost of its start cell,
\* which is the least path_cost of the last row, and no connected top-to-bottom
\* path has a smaller energy sum.
C8_SeamIsMinimal ==
    SeamFound =>
        LET g == Self.grid
            total == SeamEnergy(g, path, 1)
        IN  /\ total = Get(g, path[1][1], path[1][2]).path_cost
            /\ \A x \in 0..(g.width - 1) : total <= Get(g, x, g.height - 1).path_cost
            /\ \A p \in ConnectedPaths(g) : total <= PathEnergy(g, p, 1)

\* a seam that is cheaper than some other connected path and does not start in
\* column 0
C8_Witness ==
    /\ SeamFound
    /\ Self.grid.height >= 2
    /\ path[1][1] > 0
    /\ \E p \in ConnectedPaths(Self.grid) :
          PathEnergy(Self.grid, p, 1) > SeamEnergy(Self.grid, path, 1)

\* the column of the seam in row y
SeamColumn(seam, y) == seam[CHOOSE i \in 1..Len(seam) : seam[i][2] = y][1]

\* row without its cell at column x
RowWithout(row, x) ==
    [i \in 1..(Len(row) - 1) |-> IF i - 1 < x THEN row[i] ELSE row[i + 1]]

\* C9: one iteration of shrink_distance removes, from a grid whose costs are
\* those of a pass over that very grid, exactly one cell per row: the width drops
\* by 1, the height stays, every row has width cells, and row y is its former
\* self without the cell at the seam's column, order kept.
C9_ShrinkRemovesOneCellPerRow ==
    [][(pc = "remove" /\ pc' # "panic") =>
        LET g == Self.grid
            after == (IF shrinker # <<>> THEN shrinker'[1] ELSE carver').grid
        IN  /\ g = CalculateEnergy(g)
            /\ after.width = g.width - 1
            /\ after.height = g.height
            /\ Len(after.rows) = after.height
            /\ \A y \in 0..(g.height - 1) :
                 /\ Len(after.rows[y + 1]) = after.width
                 /\ after.rows[y + 1] = RowWithout(g.rows[y + 1], SeamColumn(path, y))
            /\ remaining' = remaining - 1]_vars

\* a second iteration is due on a grid that the first has narrowed to at least
\* two columns and two rows
C9_Witness ==
    /\ pc = "calc"
    /\ remaining >= 1 /\ remaining < distance
    /\ Self.grid.width >= 2 /\ Self.grid.height >= 2
    /\ Len(Self.removed_points) = (distance - remaining) * Self.grid.height

\* the image as grow_distance found it, with the appended columns
WidenedBase == AddColumns(grow_base[1], distance)

\* C10 as claimed: when grow_distance processes (x, y), the pixels it reads at
\* (x, y) and (x+1, y) are the pixels the image had there before the grow began.
C10_ReadsOriginalPixels ==
    pc = "add" =>
        LET x == points[1][1]
            y == points[1][2]
            base == grow_base[1]
        IN  /\ InBounds(base, x, y)
            /\ InBounds(base, x + 1, y)
            /\ Get(carver.grid, x, y).pixel = Get(base, x, y).pixel
            /\ Get(carver.grid, x + 1, y).pixel = Get(base, x + 1, y).pixel

\* C10 as amended: the points are processed in descending column order; the pixel
\* read at (x, y) is the image's before the grow began, the pixel read at
\* (x+1, y) is the image's before the grow began when x+1 is a column of that
\* image and else the appended column's; the pixel written at (x+1, y) is
\* their per-channel floor average, the cells right of it are the row's former
\* cells from x+1 on, and every other row is unchanged.
C10_GrowInsertsAverage ==
    [][(pc = "add" /\ pc' # "panic") =>
        LET x == points[1][1]
            y == points[1][2]
            g == carver.grid
            after == carver'.grid
            left == Get(g, x, y).pixel
            right == Get(g, x + 1, y).pixel
        IN  /\ \A i \in 1..(Len(points) - 1) : points[i][1] >= points[i + 1][1]
            /\ InBounds(grow_base[1], x, y)
            /\ left = Get(grow_base[1], x, y).pixel
            /\ right = Get(WidenedBase, x + 1, y).pixel
            /\ InBounds(grow_base[1], x + 1, y) => right = Get(grow_base[1], x + 1, y).pixel
            /\ Get(after, x + 1, y).pixel =
                   <<(left[1] + right[1]) \div 2, (left[2] + right[2]) \div 2,
                     (left[3] + right[3]) \div 2, (left[4] + right[4]) \div 2>>
            /\ \A c \in 0..(g.width - 1) :
                   /\ c <= x => Get(after, c, y) = Get(g, c, y)
                   /\ c >= x + 2 => Get(after, c, y) = Get(g, c - 1, y)
            /\ after.width = g.width /\ after.height = g.height
            /\ \A yy \in 0..(g.height - 1) : yy # y => after.rows[yy + 1] = g.rows[yy + 1]
            /\ points' = Tail(points)]_vars

\* a row that took two insertions at adjacent columns: the earlier one, at the
\* image's last column, wrote the average with the appended column's pixel; the
\* later one, left of it, read <<10, 20, 30, 255>> and <<20, 30, 40, 255>> as the
\* image had them and wrote <<15, 25, 35, 255>> between them
C10_Witness ==
    /\ pc \in {"add", "end"}
    /\ grow_base # <<>>
    /\ \E y \in 0..(carver.grid.height - 1), x \in 0..(carver.grid.width - 4) :
          /\ InBounds(grow_base[1], x + 1, y)
          /\ Get(grow_base[1], x, y).pixel = <<10, 20, 30, 255>>
          /\ Get(grow_base[1], x + 1, y).pixel = <<20, 30, 40, 255>>
          /\ Get(carver.grid, x, y).pixel = <<10, 20, 30, 255>>
          /\ Get(carver.grid, x + 1, y).pixel = <<15, 25, 35, 255>>
          /\ Get(carver.grid, x + 2, y).pixel = <<20, 30, 40, 255>>
          /\ x + 2 = grow_base[1].width
          /\ Get(carver.grid, x + 3, y).pixel = <<10, 15, 20, 127>>

====
